---- MODULE Spec2Model ----
(***************************************************************************)
(* A model of git-prep-directory: the mirror cache (LocalMirror, Clone,    *)
(* Fetch, AlreadyHaveRef), the deadline wrapper (ContextRun), and the      *)
(* recursive, concurrent submodule preparation (RecursiveCheckout,         *)
(* PrepSubmodules, prepSubmodule, MultipleErrors).                         *)
(*                                                                         *)
(* Go values are modelled as follows.  A string is a TLA+ string; where    *)
(* the code inspects one character by character (a pattern match, a trim,  *)
(* a slice) the model works on Chars(s), its sequence of characters.  A Go *)
(* error is the string its Error() method returns; the nil error is Nil.   *)
(***************************************************************************)
EXTENDS Integers, Sequences, FiniteSets, TLC

(***************************************************************************)
(* Bounds of the model.                                                    *)
(***************************************************************************)
\* Number of PrepBuildDirectory invocations run in sequence on one cache root.
MaxRuns == 2
\* Number of times the remote's branches move to a new commit.
MaxPushes == 1
\* runtime.NumCPU(): the capacity of the semaphore of one PrepSubmodules call.
NumCPU == 2
\* Number of submodules the top-level revision declares.
TopSubmodules == 3
\* Number of levels of submodules nested below the first submodule.
NestDepth == 1

(***************************************************************************)
(* Characters and the strings the model uses.                              *)
(***************************************************************************)
Digits == {"0", "1", "2", "3", "4", "5", "6", "7", "8", "9"}
Lower == {"a", "b", "c", "d", "e", "f", "g", "h", "i", "j", "k", "l", "m", "n", "o", "p", "q", "r", "s", "t", "u", "v", "w", "x", "y", "z"}
Upper == {"A", "B", "C", "D", "E", "F", "G", "H", "I", "J", "K", "L", "M", "N", "O", "P", "Q", "R", "S", "T", "U", "V", "W", "X", "Y", "Z"}
\* The character class [0-9a-zA-Z] of the ShaLike pattern.
AlNum == Digits \cup Lower \cup Upper
\* The digits git accepts in the textual form of an object id.
HexDigits == Digits \cup {"a", "b", "c", "d", "e", "f"} \cup {"A", "B", "C", "D", "E", "F"}

\* The repetition count {40} of the ShaLike pattern: the length of a commit id.
ShaLen == 40

\* Two commit ids (the first is the one of the tree-entry example); they
\* differ from the eleventh character on.
Sha1 == "4b825dc642cb6eb9a060e54bf8d69288fbee4904"
Sha2 == "4b825dc642ed35e90e55e6b607f0489ec0123456"
\* Two branch names: a short one, and one with a run of more than forty
\* letters.
Master == "master"
LongBranch == "release/CustomerAcceptanceCandidateForQuarterTwoRollout"
\* A name no repository has.
Typo == "mastr"

Commits == {Sha1, Sha2}
Branches == {Master, LongBranch}
\* The refs a caller passes to PrepBuildDirectory.
Refs == Commits \cup Branches \cup {Typo}

\* The successive commits the remote's branches point to.
History == <<Sha1, Sha2>>

\* The strings of the model, each with its sequence of characters.
CharTable ==
    { <<"4b825dc642cb6eb9a060e54bf8d69288fbee4904",
         <<"4", "b", "8", "2", "5", "d", "c", "6", "4", "2", "c", "b", "6", "e", "b", "9", "a", "0", "6", "0", "e", "5", "4", "b", "f", "8", "d", "6", "9", "2", "8", "8", "f", "b", "e", "e", "4", "9", "0", "4">>>>,
      <<"4b825dc642ed35e90e55e6b607f0489ec0123456",
         <<"4", "b", "8", "2", "5", "d", "c", "6", "4", "2", "e", "d", "3", "5", "e", "9", "0", "e", "5", "5", "e", "6", "b", "6", "0", "7", "f", "0", "4", "8", "9", "e", "c", "0", "1", "2", "3", "4", "5", "6">>>>,
      <<"master",
         <<"m", "a", "s", "t", "e", "r">>>>,
      <<"release/CustomerAcceptanceCandidateForQuarterTwoRollout",
         <<"r", "e", "l", "e", "a", "s", "e", "/", "C", "u", "s", "t", "o", "m", "e", "r", "A", "c", "c", "e", "p", "t", "a", "n", "c", "e", "C", "a", "n", "d", "i", "d", "a", "t", "e", "F", "o", "r", "Q", "u", "a", "r", "t", "e", "r", "T", "w", "o", "R", "o", "l", "l", "o", "u", "t">>>>,
      <<"mastr",
         <<"m", "a", "s", "t", "r">>>>,
      <<"4b825dc642",
         <<"4", "b", "8", "2", "5", "d", "c", "6", "4", "2">>>>,
      <<"master-0-g4b825dc",
         <<"m", "a", "s", "t", "e", "r", "-", "0", "-", "g", "4", "b", "8", "2", "5", "d", "c">>>>,
      <<"master-0-g4b825dc642c",
         <<"m", "a", "s", "t", "e", "r", "-", "0", "-", "g", "4", "b", "8", "2", "5", "d", "c", "6", "4", "2", "c">>>>,
      <<"master-0-g4b825dc642e",
         <<"m", "a", "s", "t", "e", "r", "-", "0", "-", "g", "4", "b", "8", "2", "5", "d", "c", "6", "4", "2", "e">>>>,
      <<"libs/a",
         <<"l", "i", "b", "s", "/", "a">>>>,
      <<"libs/b",
         <<"l", "i", "b", "s", "/", "b">>>>,
      <<"libs/c",
         <<"l", "i", "b", "s", "/", "c">>>>,
      <<"libs/d",
         <<"l", "i", "b", "s", "/", "d">>>>,
      <<"libs/e",
         <<"l", "i", "b", "s", "/", "e">>>>,
      <<"libs/f",
         <<"l", "i", "b", "s", "/", "f">>>>,
      <<"libs/g",
         <<"l", "i", "b", "s", "/", "g">>>>,
      <<"libs/h",
         <<"l", "i", "b", "s", "/", "h">>>> }

\* The characters of a string, and the string of a sequence of characters.
Chars(s) == IF s = "" THEN <<>> ELSE (CHOOSE p \in CharTable : p[1] = s)[2]
Str(t) == IF t = <<>> THEN "" ELSE (CHOOSE p \in CharTable : p[2] = t)[1]

(***************************************************************************)
(* Go errors.                                                              *)
(***************************************************************************)
Nil == "<nil>"
\* (*exec.ExitError).Error() of a process that exited with a non-zero status.
ExitError(code) == "exit status " \o ToString(code)
\* (*exec.ExitError).Error() of a process ended by Process.Kill.
SignalKilled == "signal: killed"
\* context.DeadlineExceeded and context.Canceled.
DeadlineExceeded == "context deadline exceeded"
Canceled == "context canceled"
\* The error of cmd.Start when the executable cannot be started.
StartError == "exec: \"git\": executable file not found in $PATH"
\* The error of os.MkdirAll.
MkdirError == "mkdir: permission denied"

\* The exit statuses git ends with in the model: success, 1 and 128.
ExitCodes == {0, 1, 128}
\* What cmd.Wait returns for an exit status.
WaitResult(code) == IF code = 0 THEN Nil ELSE ExitError(code)

\* Every value ContextRun can return: a start failure, the context's error,
\* or the result of cmd.Wait for a process that exited by itself.
ContextRunResults ==
    {StartError, DeadlineExceeded} \cup {WaitResult(c) : c \in ExitCodes}

(***************************************************************************)
(* State.                                                                  *)
(***************************************************************************)
VARIABLES
    disk,       \* the mirror directory at the cache root (gitDir)
    checkouts,  \* the checkout directories under the cache root: path, and a revision checked out there
    pushes,     \* how many times the remote's branches have moved
    mpc,        \* position of the current PrepBuildDirectory invocation
    ref,        \* its ref argument
    rev,        \* its resolved commit id
    tagName,    \* its descriptive name
    builds,     \* the BuildDirectory values returned and not yet cleaned up, with their invocation
    log,        \* one record per invocation: what its LocalMirror call did
    \* One external command, run the way the code runs it:
    opKind,     \* the command: "clone", "fetch", "cat-file", ...
    ctxErr,     \* ctx.Err(): Nil while the deadline has not elapsed
    proc,       \* the process: "none", "running", "exited" or "killed"
    hung,       \* whether the process never exits by itself
    exitCode,   \* the exit status of a process that exited
    cpc,        \* position of the caller: "call", "select", "blocked", "returned"
    wpc,        \* position of the goroutine of ContextRun: "none", "wait", "send", "done"
    waitErr,    \* what cmd.Wait returned to that goroutine
    runRet,     \* what ContextRun (or cmd.Run, cmd.Output) returned
    opRet,      \* what the function that ran the command returned
    killCalled, \* whether cmd.Process.Kill was called
    sel,        \* what the select statement of ContextRun found, and what it chose
    events,     \* the order of: the process exits, ctx is done, the caller returns
    \* One RecursiveCheckout of a revision with a tree of submodules; a node
    \* is the top-level repository (Root) or a submodule:
    pc,         \* position of the goroutine that prepares the node
    ret,        \* what prepSubmodule (for Root: RecursiveCheckout) returned
    pinned,     \* Submodule.Rev, as GetSubmoduleRevs of the parent set it
    mirror,     \* the mirror directory of the node
    spc,        \* position of the goroutine PrepSubmodules of the node starts
    errs,       \* the buffer of the channel errs of that PrepSubmodules call
    closed,     \* whether that channel is closed
    sem,        \* the number of slots taken in its semaphore
    wg,         \* the counter of its WaitGroup
    em,         \* em.errs of its MultipleErrors call
    prepRet,    \* what that PrepSubmodules call returned
    panicked,   \* the node whose goroutine panicked (NoNode if none): the program died
    tag,        \* tagName of the top-level preparation
    trail,      \* per node: the steps its preparation has taken, with their errors
    worktree,   \* the worktrees materialized: checkout path, revision, node
    received    \* per node: how many outcomes its MultipleErrors call has received

mirrorVars == <<disk, checkouts, pushes, mpc, ref, rev, tagName, builds, log>>
runVars == <<opKind, ctxErr, proc, hung, exitCode, cpc, wpc, waitErr, runRet,
             opRet, killCalled, sel, events>>

prepVars == <<pc, ret, pinned, mirror, spc, errs, closed, sem, wg, em, prepRet,
              panicked, tag, trail, worktree, received>>

vars == <<mirrorVars, runVars, prepVars>>

\* What the actions of each part of the model leave unchanged.
notMirror == <<runVars, prepVars>>
notRun == <<mirrorVars, prepVars>>
notPrep == <<mirrorVars, runVars>>

(***************************************************************************)
(* The git repositories: the remote, and the mirror directory on disk.     *)
(* A repository is a record: state is "absent" (no directory), "partial"   *)
(* (a directory that is not a complete repository) or "complete"; objs is  *)
(* its object store; refs is the set of <<name, commit>> it holds.         *)
(***************************************************************************)
NoObject == ""
Absent == [state |-> "absent", objs |-> {}, refs |-> {}]
Partial == [state |-> "partial", objs |-> {}, refs |-> {}]

\* The commit the remote's branches point to after k pushes.
Tip(k) == History[(k % Len(History)) + 1]
\* The remote repository after k pushes: every branch points to the newest
\* commit, and the older commits stay reachable.
Remote(k) ==
    [state |-> "complete",
     objs |-> {Tip(i) : i \in 0..k},
     refs |-> {<<b, Tip(k)>> : b \in Branches}]

\* The textual form of an object id: forty hexadecimal digits.
IsObjectId(s) ==
    LET c == Chars(s) IN Len(c) = ShaLen /\ \A i \in 1..Len(c) : c[i] \in HexDigits

\* The object `name` resolves to in repository m, as git resolves the
\* argument of cat-file, rev-parse --verify and describe.
GitResolve(m, name) ==
    IF m.state # "complete" THEN NoObject
    ELSE IF IsObjectId(name) THEN (IF name \in m.objs THEN name ELSE NoObject)
    ELSE IF \E r \in m.refs : r[1] = name
         THEN (CHOOSE r \in m.refs : r[1] = name)[2]
         ELSE NoObject

\* What `git clone --mirror url gitDir` leaves at gitDir when ContextRun
\* returns runErr: a complete replica on success, nothing after a failed start
\* or exit, and after a deadline whatever the killed (or just finished)
\* process had written: residue.
GitClone(rem, runErr, residue) ==
    IF runErr = Nil THEN rem
    ELSE IF runErr = DeadlineExceeded THEN
        (IF residue = "complete" THEN rem
         ELSE IF residue = "partial" THEN Partial ELSE Absent)
    ELSE Absent

\* The mirror after one run of `git fetch -f url *:*`.
Fetched(m, rem) ==
    [state |-> "complete", objs |-> m.objs \cup rem.objs, refs |-> rem.refs]

\* What `git fetch -f url *:*` leaves at gitDir when ContextRun returns
\* runErr: on a deadline the process may have finished the update (residue
\* "complete") or not.
GitFetch(m, rem, runErr, residue) ==
    IF m.state # "complete" THEN m
    ELSE IF runErr = Nil THEN Fetched(m, rem)
    ELSE IF runErr = DeadlineExceeded /\ residue = "complete" THEN Fetched(m, rem)
    ELSE m

\* The results ContextRun can return for a fetch in mirror m: git cannot
\* succeed in a directory that is not a repository.
FetchResults(m) ==
    IF m.state = "complete" THEN ContextRunResults
    ELSE {StartError, DeadlineExceeded, ExitError(128)}

(***************************************************************************)
(* The mirror cache: git.go.                                               *)
(***************************************************************************)
\* ShaLike.MatchString: the unanchored pattern [0-9a-zA-Z]{40} matches when
\* some forty consecutive characters of s are all alphanumeric.
ShaLikeMatchString(s) ==
    LET c == Chars(s)
    IN  \E i \in 1..(Len(c) - ShaLen + 1) :
            \A j \in i..(i + ShaLen - 1) : c[j] \in AlNum

\* `git cat-file -t sha` run in gitDir: nil when sha names an object there.
CatFile(m, sha) ==
    IF GitResolve(m, sha) # NoObject THEN Nil ELSE ExitError(128)

\* A variant of AlreadyHaveRef with the sha-like test inverted.
AlreadyHaveRefInverted(m, sha) ==
    IF ShaLikeMatchString(sha) THEN FALSE
    ELSE CatFile(m, sha) = Nil

AlreadyHaveRef(m, sha) ==
    IF ~ShaLikeMatchString(sha) THEN FALSE
    ELSE CatFile(m, sha) = Nil

\* A variant of Fetch without the special case for exit status 1.
FetchStrict(runErr) == runErr

\* Fetch, given what ContextRun returned for the fetch command.
Fetch(runErr) ==
    IF runErr # Nil /\ runErr # "exit status 1" THEN runErr ELSE Nil

\* Clone, given what ContextRun returned for the clone command.
Clone(runErr) == runErr

\* A variant of Stat that finds every directory present.
StatAlwaysPresent(m) == Nil

\* os.Stat(gitDir).
Stat(m) == IF m.state = "absent" THEN "stat: no such file or directory" ELSE Nil

\* LocalMirror(url, gitDir, ref): m is the directory at gitDir, rem the
\* repository at url; mkdirErr, runErr and residue are the outcomes of
\* os.MkdirAll and of the external command, should the code reach them.
\* The result names the error returned, the directory afterwards and the
\* network operation started ("none", "fetch" or "clone").
LocalMirror(m, rem, r, mkdirErr, runErr, residue) ==
    IF Stat(m) = Nil THEN
        IF AlreadyHaveRef(m, r)
        THEN [err |-> Nil, disk |-> m, op |-> "none", run |-> Nil]
        ELSE [err |-> Fetch(runErr), disk |-> GitFetch(m, rem, runErr, residue),
              op |-> "fetch", run |-> runErr]
    ELSE IF mkdirErr # Nil
        THEN [err |-> mkdirErr, disk |-> m, op |-> "none", run |-> Nil]
        ELSE [err |-> Clone(runErr), disk |-> GitClone(rem, runErr, residue),
              op |-> "clone", run |-> runErr]

(***************************************************************************)
(* Revision resolution and checkout: git.go.                               *)
(***************************************************************************)
Whitespace == {" ", "\t", "\n", "\r"}

\* strings.TrimSpace on a sequence of characters.
RECURSIVE TrimLeft(_)
TrimLeft(s) ==
    IF s # <<>> /\ Head(s) \in Whitespace THEN TrimLeft(Tail(s)) ELSE s
RECURSIVE TrimRight(_)
TrimRight(s) ==
    IF s # <<>> /\ s[Len(s)] \in Whitespace
    THEN TrimRight(SubSeq(s, 1, Len(s) - 1)) ELSE s
TrimSpace(s) == TrimRight(TrimLeft(s))

\* strings.HasPrefix and strings.TrimPrefix on sequences of characters.
HasPrefix(s, prefix) ==
    Len(s) >= Len(prefix) /\ SubSeq(s, 1, Len(prefix)) = prefix
TrimPrefix(s, prefix) ==
    IF HasPrefix(s, prefix) THEN SubSeq(s, Len(prefix) + 1, Len(s)) ELSE s

\* The standard output of `git rev-parse ref` in mirror m (<<>> on failure):
\* a full object id is echoed, a name is resolved through the mirror's refs.
RevParseOutput(m, r) ==
    IF m.state # "complete" THEN <<>>
    ELSE IF IsObjectId(r) THEN Chars(r) \o <<"\n">>
    ELSE IF GitResolve(m, r) # NoObject THEN Chars(GitResolve(m, r)) \o <<"\n">>
    ELSE <<>>

RevParse(m, r) ==
    IF RevParseOutput(m, r) = <<>>
    THEN [sha |-> "", err |-> ExitError(128)]
    ELSE [sha |-> Str(TrimSpace(RevParseOutput(m, r))), err |-> Nil]

\* The abbreviation git prints for the object id in mirror m: its shortest
\* prefix of seven characters or more that no other object of m begins with.
Abbrev(m, id) ==
    LET c == Chars(id)
        unique(k) == \A o \in m.objs \ {id} :
                        SubSeq(Chars(o), 1, k) # SubSeq(c, 1, k)
        k == CHOOSE k \in 7..Len(c) :
                unique(k) /\ \A j \in 7..(k - 1) : ~unique(j)
    IN  SubSeq(c, 1, k)

\* The standard output of `git describe --all --tags --long rev` in mirror m
\* (<<>> on failure): the nearest ref, the distance and the abbreviated id.
DescribeOutput(m, r) ==
    IF GitResolve(m, r) = NoObject THEN <<>>
    ELSE <<"h", "e", "a", "d", "s", "/">> \o Chars(Master) \o <<"-", "0", "-", "g">>
         \o Abbrev(m, GitResolve(m, r)) \o <<"\n">>

Describe(m, r) ==
    IF DescribeOutput(m, r) = <<>>
    THEN [desc |-> "", err |-> ExitError(128)]
    ELSE [desc |-> Str(TrimPrefix(TrimPrefix(TrimSpace(DescribeOutput(m, r)),
                                             <<"h", "e", "a", "d", "s", "/">>),
                                  <<"t", "a", "g", "s", "/">>)),
          err |-> Nil]

\* The results of Checkout: success, a failed os.MkdirAll, a failed
\* `git checkout`.
CheckoutResults == {Nil, MkdirError, ExitError(1)}

\* The checkout directory of a commit id: <cacheRoot>/c/<rev[:10]>.
ShortRevLen == 10
CheckoutPath(r) == "c/" \o Str(SubSeq(Chars(r), 1, ShortRevLen))

(***************************************************************************)
(* PrepBuildDirectory on one cache root, for a repository whose revisions  *)
(* declare no submodules: git-prep-directory.go.                           *)
(***************************************************************************)
NewLogEntry(r) ==
    [ref |-> r, existed |-> FALSE, inStore |-> FALSE, have |-> FALSE,
     op |-> "pending", run |-> Nil, mirrorErr |-> Nil, rev |-> "",
     dir |-> "", err |-> Nil, done |-> FALSE]

\* The invocation returns err (Nil with a BuildDirectory).
Return(err) ==
    /\ mpc' = "idle"
    /\ log' = [log EXCEPT ![Len(log)] = [@ EXCEPT !.err = err, !.done = TRUE]]

\* The invocation returns err from RecursiveCheckout, which it called with
\* checkoutPath dir for the commit id r.
ReturnCheckout(r, dir, err) ==
    /\ mpc' = "idle"
    /\ log' = [log EXCEPT ![Len(log)] =
                 [@ EXCEPT !.rev = r, !.dir = dir, !.err = err, !.done = TRUE]]

\* A caller invokes PrepBuildDirectory(gitDir, remote, r).
Begin(r) ==
    /\ mpc = "idle"
    /\ Len(log) < MaxRuns
    /\ ref' = r
    /\ rev' = ""
    /\ tagName' = ""
    /\ mpc' = "LocalMirror"
    /\ log' = Append(log, NewLogEntry(r))
    /\ UNCHANGED <<notMirror, disk, checkouts, pushes, builds>>

\* err = LocalMirror(remote, gitDir, ref, timeout, os.Stderr).  An outcome is
\* drawn only for a call the code reaches: os.MkdirAll when os.Stat failed, the
\* command when one is run, what a killed process left when the deadline elapsed.
StepLocalMirror ==
    /\ mpc = "LocalMirror"
    /\ \E mkdirErr \in {Nil, MkdirError}, runErr \in ContextRunResults,
          residue \in {"absent", "partial", "complete"} :
        LET r == LocalMirror(disk, Remote(pushes), ref, mkdirErr, runErr, residue)
            entry == [log[Len(log)] EXCEPT
                        !.existed = (Stat(disk) = Nil),
                        !.inStore = (disk.state = "complete" /\ ref \in disk.objs),
                        !.have = (Stat(disk) = Nil /\ AlreadyHaveRef(disk, ref)),
                        !.op = r.op,
                        !.run = r.run,
                        !.mirrorErr = r.err]
        IN  /\ r.op = "fetch" => runErr \in FetchResults(disk)
            /\ mkdirErr # Nil => Stat(disk) # Nil
            /\ r.op = "none" => runErr = Nil
            /\ runErr # DeadlineExceeded => residue = "absent"
            /\ disk' = r.disk
            /\ IF r.err # Nil
               THEN /\ mpc' = "idle"
                    /\ log' = [log EXCEPT ![Len(log)] =
                                 [entry EXCEPT
                                    !.err = "unable to LocalMirror: " \o r.err,
                                    !.done = TRUE]]
               ELSE /\ mpc' = "RevParse"
                    /\ log' = [log EXCEPT ![Len(log)] = entry]
    /\ UNCHANGED <<notMirror, checkouts, pushes, ref, rev, tagName, builds>>

\* rev, err := RevParse(gitDir, ref)
StepRevParse ==
    /\ mpc = "RevParse"
    /\ LET r == RevParse(disk, ref)
       IN  IF r.err # Nil
           THEN Return("unable to parse rev: " \o r.err) /\ UNCHANGED rev
           ELSE mpc' = "Describe" /\ rev' = r.sha /\ UNCHANGED log
    /\ UNCHANGED <<notMirror, disk, checkouts, pushes, ref, tagName, builds>>

\* tagName, err := Describe(gitDir, rev)
StepDescribe ==
    /\ mpc = "Describe"
    /\ LET r == Describe(disk, rev)
       IN  IF r.err # Nil
           THEN Return("unable to describe " \o rev \o ": " \o r.err) /\ UNCHANGED tagName
           ELSE mpc' = "RecursiveCheckout" /\ tagName' = r.desc /\ UNCHANGED log
    /\ UNCHANGED <<notMirror, disk, checkouts, pushes, ref, rev, builds>>

\* err = RecursiveCheckout(gitDir, checkoutPath, rev, timeout): Checkout, then
\* PrepSubmodules, which finds no .gitmodules and returns nil; on success the
\* BuildDirectory is returned.
StepRecursiveCheckout ==
    /\ mpc = "RecursiveCheckout"
    /\ \E err \in CheckoutResults :
        /\ checkouts' = IF err = MkdirError THEN checkouts
                        ELSE checkouts \cup
                                {[path |-> CheckoutPath(rev), rev |-> rev]}
        /\ IF err # Nil
           THEN /\ ReturnCheckout(rev, CheckoutPath(rev),
                                  "failed to checkout: " \o err)
                /\ UNCHANGED builds
           ELSE /\ ReturnCheckout(rev, CheckoutPath(rev), Nil)
                /\ builds' = builds \cup
                      {[Name |-> tagName, Dir |-> CheckoutPath(rev),
                        run |-> Len(log)]}
    /\ UNCHANGED <<notMirror, disk, pushes, ref, rev, tagName>>

\* The caller invokes the Cleanup of a BuildDirectory it holds:
\* SafeCleanup(checkoutPath) removes the checkout directory.
Cleanup(b) ==
    /\ mpc = "idle"
    /\ b \in builds
    /\ builds' = builds \ {b}
    /\ checkouts' = {c \in checkouts : c.path # b.Dir}
    /\ UNCHANGED <<notMirror, disk, pushes, mpc, ref, rev, tagName, log>>

\* Somebody pushes to the remote: its branches move to a new commit.
RemotePush ==
    /\ pushes < MaxPushes
    /\ pushes' = pushes + 1
    /\ UNCHANGED <<notMirror, disk, checkouts, mpc, ref, rev, tagName, builds, log>>

(***************************************************************************)
(* The submodule tree of one revision, and its preparation: the submodule  *)
(* file (PrepSubmodules, MultipleErrors, prepSubmodule, ParseSubmodules,   *)
(* GetSubmoduleRevs) and RecursiveCheckout of git.go.                      *)
(*                                                                         *)
(* Node 0 is the top-level repository; nodes 1..TopSubmodules are the      *)
(* submodules its revision declares; below submodule 1 hangs a chain of    *)
(* NestDepth nested submodules, one per level.  The model follows one      *)
(* top-level preparation on an empty cache root: PrepBuildDirectory for    *)
(* Root, prepSubmodule for every other node.                               *)
(***************************************************************************)
Root == 0
NoNode == 0 - 1
Nodes == 0..(TopSubmodules + NestDepth)
Workers == Nodes \ {Root}
Parent(n) ==
    IF n <= TopSubmodules THEN Root
    ELSE IF n = TopSubmodules + 1 THEN 1 ELSE n - 1
\* The submodules the .gitmodules file of the node's revision declares.
Children(n) == {c \in Workers : Parent(c) = n}
RECURSIVE Depth(_)
Depth(n) == IF n = Root THEN 0 ELSE 1 + Depth(Parent(n))

\* Submodule.Path of a node: the path its parent's .gitmodules gives it.
Paths == <<"libs/a", "libs/b", "libs/c", "libs/d", "libs/e", "libs/f",
           "libs/g", "libs/h">>
\* The submodules of one parent have distinct paths; a nested submodule has
\* the relative path a submodule of the top level has, too.
Path(n) == Paths[IF n <= TopSubmodules THEN n ELSE n - TopSubmodules]

\* filepath.Join(a, b), with "" for the cache root.
Join(a, b) == IF a = "" THEN b ELSE a \o "/" \o b
\* A variant of GitDir that puts every mirror under the top-level modules/.
GitDirFlat(n) == IF n = Root THEN "" ELSE Join("modules", Path(n))
\* subGitDir of prepSubmodule, relative to the top-level mirror gitDir.
RECURSIVE GitDir(_)
GitDir(n) ==
    IF n = Root THEN "" ELSE Join(Join(GitDir(Parent(n)), "modules"), Path(n))
\* subCheckoutPath of prepSubmodule below the top-level checkout path top,
\* relative to gitDir.
RECURSIVE CheckoutDir(_, _)
CheckoutDir(n, top) ==
    IF n = Root THEN top ELSE Join(CheckoutDir(Parent(n), top), Path(n))
\* The mirror directories of the tree.
MirrorPaths == {GitDir(n) : n \in Nodes}

\* strings.Fields on a sequence of characters: the maximal runs of
\* characters that are not white space.
RECURSIVE FieldsFrom(_, _, _)
FieldsFrom(s, cur, acc) ==
    IF s = <<>> THEN (IF cur = <<>> THEN acc ELSE Append(acc, cur))
    ELSE IF Head(s) \in Whitespace
         THEN FieldsFrom(Tail(s), <<>>,
                         IF cur = <<>> THEN acc ELSE Append(acc, cur))
         ELSE FieldsFrom(Tail(s), Append(cur, Head(s)), acc)
Fields(s) == FieldsFrom(s, <<>>, <<>>)

\* The tree entry `git ls-tree mainRev -- path` prints for a submodule:
\* "160000 commit <object id>\t<path>\n".
TreeEntry(id, path) ==
    <<"1", "6", "0", "0", "0", "0", " ", "c", "o", "m", "m", "i", "t", " ">>
        \o Chars(id) \o <<"\t">> \o Chars(path) \o <<"\n">>

\* What `git ls-tree mainRev -- path` can give for the submodule c: its tree
\* entry, nothing (the tree has no entry at that path), a line of two fields
\* only ("160000 commit"), or a failure.
LsTreeResults(c) ==
    { [stdout |-> TreeEntry(Sha1, Path(c)), err |-> Nil],
      [stdout |-> <<>>, err |-> Nil],
      [stdout |-> SubSeq(TreeEntry(Sha1, Path(c)), 1, 13) \o <<"\n">>,
       err |-> Nil],
      [stdout |-> <<>>, err |-> ExitError(128)] }

\* GetSubmoduleRev, given what cmd.Output returned: the third field of the
\* output; indexing past the end of the fields is a run-time panic.
GetSubmoduleRev(out) ==
    IF out.err # Nil THEN [rev |-> "", err |-> out.err, panic |-> FALSE]
    ELSE IF Len(Fields(out.stdout)) < 3
         THEN [rev |-> "", err |-> Nil, panic |-> TRUE]
         ELSE [rev |-> Str(Fields(out.stdout)[3]), err |-> Nil, panic |-> FALSE]

\* GetSubmoduleRevs over the submodules `subs` (a sequence of nodes), given
\* the output of ls-tree for each: the revisions set so far, and the first
\* error or panic, at which the loop ends.
RECURSIVE GetSubmoduleRevs(_, _, _)
GetSubmoduleRevs(subs, outs, revs) ==
    IF subs = <<>> THEN [revs |-> revs, err |-> Nil, panic |-> FALSE]
    ELSE LET r == GetSubmoduleRev(outs[Head(subs)])
         IN  IF r.panic \/ r.err # Nil
             THEN [revs |-> revs, err |-> r.err, panic |-> r.panic]
             ELSE GetSubmoduleRevs(Tail(subs), outs,
                                   [revs EXCEPT ![Head(subs)] = r.rev])

\* The submodules of a node as the slice ParseSubmodules returns.  The code
\* fills the slice in the iteration order of a map; the model lists them by
\* number, and every node's outcome is chosen independently of its place.
RECURSIVE SeqOf(_)
SeqOf(set) ==
    IF set = {} THEN <<>>
    ELSE LET c == CHOOSE x \in set : \A y \in set : x <= y
         IN  <<c>> \o SeqOf(set \ {c})

\* Whether the checkout of the node holds a .gitmodules file: the nodes with
\* submodules do, and so does the last node of the chain, whose file
\* declares no submodule.
HasGitModules(n) == Children(n) # {} \/ n = TopSubmodules + NestDepth

\* What ParseSubmodules can return for a node: the submodules its
\* .gitmodules declares ("list"), an error that os.IsNotExist accepts
\* ("notexist": there is no .gitmodules), or the error of a file that
\* cannot be parsed.
ParseResults(n) ==
    IF HasGitModules(n) THEN {"list", "error"} ELSE {"notexist"}
ParseError == "open .gitmodules: permission denied"

\* A variant of SemaphoreOf with one semaphore for the whole tree.
SemaphoreOfGlobal(c) == Root

\* The semaphore a worker uses: the one the PrepSubmodules call that started
\* it made (semaphore := make(chan struct{}, runtime.NumCPU())), named by
\* the node of that call.
SemaphoreOf(c) == Parent(c)

\* A variant of SemaphoreHasRoom for a semaphore without capacity limit.
SemaphoreUnbounded(taken) == TRUE

\* Whether the send `semaphore <- struct{}{}` can proceed: the channel has
\* capacity runtime.NumCPU().
SemaphoreHasRoom(taken) == taken < NumCPU

\* A variant of Collect that keeps the nil outcomes, too.
CollectAll(list, e) == Append(list, e)

\* One iteration of the loop of MultipleErrors: a nil outcome is skipped,
\* every other one is appended to em.errs.
Collect(list, e) == IF e = Nil THEN list ELSE Append(list, e)

\* strings.Join(s, "\n") of the Error() strings of a list of errors.
RECURSIVE JoinLines(_)
JoinLines(list) ==
    IF list = <<>> THEN ""
    ELSE IF Len(list) = 1 THEN list[1]
    ELSE list[1] \o "\n" \o JoinLines(Tail(list))

\* A variant of ErrMultipleError that renders the first error only.
ErrMultipleErrorFirst(list) == "multiple errors:\n" \o list[1]

\* (*ErrMultiple).Error().
ErrMultipleError(list) == "multiple errors:\n" \o JoinLines(list)

\* What MultipleErrors returns for the outcomes it collected, as a record:
\* nil, or the ErrMultiple holding them.
MultipleErrors(list) ==
    IF Len(list) = 0 THEN [type |-> "nil", errs |-> <<>>]
    ELSE [type |-> "ErrMultiple", errs |-> list]

\* The outcome a worker sends on errs, given what prepSubmodule returned.
Outcome(n, err) ==
    IF err # Nil THEN "processing " \o Path(n) \o ": " \o err ELSE Nil

\* The results of LocalMirror's external command in the tree model.
MirrorRunResults == {Nil, DeadlineExceeded}

\* The errors ParseSubmodules returns: the one of opening a file that is not
\* there, and the one of a file that cannot be parsed.
NotExistError == "open .gitmodules: no such file or directory"
ParseErr(kind) ==
    IF kind = "notexist" THEN NotExistError
    ELSE IF kind = "error" THEN ParseError ELSE Nil

\* A variant of IsNotExist that recognises no error.
IsNotExistNever(err) == FALSE

\* os.IsNotExist(err).
IsNotExist(err) == err = NotExistError

\* How many tree entries GetSubmoduleRevs queries over the submodules subs:
\* the loop ends at the first query that fails or panics.
RECURSIVE QueriesMade(_, _)
QueriesMade(subs, outs) ==
    IF subs = <<>> THEN 0
    ELSE LET r == GetSubmoduleRev(outs[Head(subs)])
         IN  IF r.panic \/ r.err # Nil THEN 1
             ELSE 1 + QueriesMade(Tail(subs), outs)

\* The preparation of node n takes the steps `steps`.
Steps(n, steps) == trail' = [trail EXCEPT ![n] = @ \o steps]
\* One step of a preparation, with the error it gave.
Step(name, err) == [step |-> name, err |-> err]

\* A variant of PrepReturn that takes the failed step again instead of
\* returning.
PrepReturnRetry(n, err) ==
    /\ ret' = [ret EXCEPT ![n] = err]
    /\ pc' = pc

\* A variant of PrepReturn that drops the error: the node returns nil.
PrepReturnLost(n, err) ==
    /\ ret' = [ret EXCEPT ![n] = Nil]
    /\ pc' = [pc EXCEPT ![n] = IF n = Root THEN "returned" ELSE "deposit"]

\* The goroutine of the node returns err from prepSubmodule (for Root: from
\* PrepBuildDirectory); a worker goes on to send its outcome.
PrepReturn(n, err) ==
    /\ ret' = [ret EXCEPT ![n] = err]
    /\ pc' = [pc EXCEPT ![n] = IF n = Root THEN "returned" ELSE "deposit"]

\* PrepSubmodules of the node returns r and RecursiveCheckout wraps it.
PrepSubmodulesReturn(n, r) ==
    /\ prepRet' = [prepRet EXCEPT ![n] = r]
    /\ PrepReturn(n, IF r.type = "nil" THEN Nil
                     ELSE IF r.type = "ErrMultiple"
                          THEN "failed to prep submodules: "
                                   \o ErrMultipleError(r.errs)
                          ELSE "failed to prep submodules: " \o r.errs[1])

\* go func(submodule Submodule) {...}: semaphore <- struct{}{}
Acquire(n) ==
    /\ panicked = NoNode
    /\ pc[n] = "acquire"
    /\ SemaphoreHasRoom(sem[SemaphoreOf(n)])
    /\ sem' = [sem EXCEPT ![SemaphoreOf(n)] = @ + 1]
    /\ pc' = [pc EXCEPT ![n] = "LocalMirror"]
    /\ UNCHANGED <<notPrep, ret, pinned, mirror, spc, errs, closed, wg, em,
                   prepRet, panicked, tag, trail, worktree, received>>

\* A variant of AfterLocalMirror in which PrepBuildDirectory does not
\* resolve the ref before it describes it.
AfterLocalMirrorDescribe(n) == IF n = Root THEN "Describe" ELSE "Checkout"

\* What follows a successful LocalMirror: RevParse in PrepBuildDirectory,
\* RecursiveCheckout in prepSubmodule.
AfterLocalMirror(n) == IF n = Root THEN "RevParse" ELSE "Checkout"

\* PrepBuildDirectory: err = LocalMirror(remote, gitDir, ref, ...), and
\* prepSubmodule: err := LocalMirror(submodule.URL, subGitDir, submodule.Rev, ...)
PrepLocalMirror(n) ==
    /\ panicked = NoNode
    /\ pc[n] = "LocalMirror"
    /\ \E runErr \in MirrorRunResults :
        LET r == LocalMirror(mirror[GitDir(n)], Remote(0), pinned[n], Nil,
                             runErr, "partial")
        IN  /\ mirror' = [mirror EXCEPT ![GitDir(n)] = r.disk]
            /\ Steps(n, (IF r.op = "none" THEN <<>> ELSE <<Step(r.op, r.run)>>)
                            \o <<Step("LocalMirror", r.err)>>)
            /\ IF r.err # Nil
               THEN PrepReturn(n, IF n = Root
                                  THEN "unable to LocalMirror: " \o r.err
                                  ELSE r.err)
               ELSE /\ pc' = [pc EXCEPT ![n] = AfterLocalMirror(n)]
                    /\ UNCHANGED ret
    /\ UNCHANGED <<notPrep, pinned, spc, errs, closed, sem, wg, em, prepRet,
                   panicked, tag, worktree, received>>

\* PrepBuildDirectory: rev, err := RevParse(gitDir, ref)
PrepRevParse ==
    /\ panicked = NoNode
    /\ pc[Root] = "RevParse"
    /\ LET r == RevParse(mirror[GitDir(Root)], pinned[Root])
       IN  /\ Steps(Root, <<Step("RevParse", r.err)>>)
           /\ IF r.err # Nil
              THEN /\ PrepReturn(Root, "unable to parse rev: " \o r.err)
                   /\ UNCHANGED pinned
              ELSE /\ pinned' = [pinned EXCEPT ![Root] = r.sha]
                   /\ pc' = [pc EXCEPT ![Root] = "Describe"]
                   /\ UNCHANGED ret
    /\ UNCHANGED <<notPrep, mirror, spc, errs, closed, sem, wg, em, prepRet,
                   panicked, tag, worktree, received>>

\* PrepBuildDirectory: tagName, err := Describe(gitDir, rev)
PrepDescribe ==
    /\ panicked = NoNode
    /\ pc[Root] = "Describe"
    /\ LET r == Describe(mirror[GitDir(Root)], pinned[Root])
       IN  /\ Steps(Root, <<Step("Describe", r.err)>>)
           /\ IF r.err # Nil
              THEN /\ PrepReturn(Root, "unable to describe " \o pinned[Root]
                                           \o ": " \o r.err)
                   /\ UNCHANGED tag
              ELSE /\ tag' = r.desc
                   /\ pc' = [pc EXCEPT ![Root] = "Checkout"]
                   /\ UNCHANGED ret
    /\ UNCHANGED <<notPrep, pinned, mirror, spc, errs, closed, sem, wg, em,
                   prepRet, panicked, worktree, received>>

\* The checkout path of the node: checkoutPath of PrepBuildDirectory for
\* Root, subCheckoutPath of prepSubmodule for a submodule.
CheckoutPathOf(n) == CheckoutDir(n, CheckoutPath(pinned[Root]))

\* RecursiveCheckout: err := Checkout(gitDir, checkoutPath, rev)
PrepCheckout(n) ==
    /\ panicked = NoNode
    /\ pc[n] = "Checkout"
    /\ \E err \in {Nil, ExitError(1)} :
        /\ Steps(n, <<Step("Checkout", err)>>)
        /\ IF err # Nil
           THEN /\ PrepReturn(n, "failed to checkout: " \o err)
                /\ UNCHANGED worktree
           ELSE /\ pc' = [pc EXCEPT ![n] = "ParseSubmodules"]
                /\ worktree' = worktree \cup
                      {[path |-> CheckoutPathOf(n), rev |-> pinned[n],
                        node |-> n]}
                /\ UNCHANGED ret
    /\ UNCHANGED <<notPrep, pinned, mirror, spc, errs, closed, sem, wg, em,
                   prepRet, panicked, tag, received>>

\* PrepSubmodules: submodules, err := ParseSubmodules(gitModules)
PrepParseSubmodules(n) ==
    /\ panicked = NoNode
    /\ pc[n] = "ParseSubmodules"
    /\ \E r \in ParseResults(n) :
        /\ Steps(n, <<Step("ParseSubmodules", ParseErr(r))>>)
        /\ IF ParseErr(r) # Nil
           THEN IF IsNotExist(ParseErr(r))
                THEN PrepSubmodulesReturn(n, [type |-> "nil", errs |-> <<>>])
                ELSE PrepSubmodulesReturn(n, [type |-> "error",
                                              errs |-> <<ParseErr(r)>>])
           ELSE /\ pc' = [pc EXCEPT ![n] = "GetSubmoduleRevs"]
                /\ UNCHANGED <<ret, prepRet>>
    /\ UNCHANGED <<notPrep, pinned, mirror, spc, errs, closed, sem, wg, em,
                   panicked, tag, worktree, received>>

\* PrepSubmodules: GetSubmoduleRevs(gitDir, mainRev, submodules), and on
\* success errs := make(chan error, len(submodules)) and go func() {...}().
PrepGetSubmoduleRevs(n) ==
    /\ panicked = NoNode
    /\ pc[n] = "GetSubmoduleRevs"
    /\ \E outs \in [Children(n) -> UNION {LsTreeResults(c) : c \in Children(n)}] :
        /\ \A c \in Children(n) : outs[c] \in LsTreeResults(c)
        /\ LET subs == SeqOf(Children(n))
               r == GetSubmoduleRevs(subs, outs, pinned)
           IN  /\ Steps(n, [i \in 1..QueriesMade(subs, outs) |->
                               Step("ls-tree", outs[subs[i]].err)])
               /\ IF r.panic
                  THEN /\ panicked' = n
                       /\ UNCHANGED <<pc, ret, pinned, spc, prepRet>>
                  ELSE IF r.err # Nil
                  THEN /\ PrepSubmodulesReturn(n,
                           [type |-> "error",
                            errs |-> <<"GetSubmoduleRevs: " \o r.err>>])
                       /\ UNCHANGED <<pinned, spc, panicked>>
                  ELSE /\ pinned' = r.revs
                       /\ spc' = [spc EXCEPT ![n] = "loop"]
                       /\ pc' = [pc EXCEPT ![n] = "MultipleErrors"]
                       /\ UNCHANGED <<ret, prepRet, panicked>>
    /\ UNCHANGED <<notPrep, mirror, errs, closed, sem, wg, em, tag, worktree,
                   received>>

\* The loop of the goroutine of PrepSubmodules: wg.Add(1) and
\* go func(submodule Submodule) {...}(submodule) for the next submodule c.
Spawn(n, c) ==
    /\ panicked = NoNode
    /\ spc[n] = "loop"
    /\ c \in Children(n)
    /\ pc[c] = "idle"
    /\ \A d \in Children(n) : d < c => pc[d] # "idle"
    /\ wg' = [wg EXCEPT ![n] = @ + 1]
    /\ pc' = [pc EXCEPT ![c] = "acquire"]
    /\ UNCHANGED <<notPrep, ret, pinned, mirror, spc, errs, closed, sem, em,
                   prepRet, panicked, tag, trail, worktree, received>>

\* The loop ends; the deferred wg.Wait() begins.
SpawnEnd(n) ==
    /\ panicked = NoNode
    /\ spc[n] = "loop"
    /\ \A c \in Children(n) : pc[c] # "idle"
    /\ spc' = [spc EXCEPT ![n] = "wait"]
    /\ UNCHANGED <<notPrep, pc, ret, pinned, mirror, errs, closed, sem, wg, em,
                   prepRet, panicked, tag, trail, worktree, received>>

\* wg.Wait() returns and the deferred close(errs) runs.
CloseErrs(n) ==
    /\ panicked = NoNode
    /\ spc[n] = "wait"
    /\ wg[n] = 0
    /\ closed' = [closed EXCEPT ![n] = TRUE]
    /\ spc' = [spc EXCEPT ![n] = "closed"]
    /\ UNCHANGED <<notPrep, pc, ret, pinned, mirror, errs, sem, wg, em,
                   prepRet, panicked, tag, trail, worktree, received>>

\* A variant of ErrsCapacity: a channel that buffers one outcome.
ErrsCapacityOne(n) == 1

\* errs := make(chan error, len(submodules)): the capacity of errs of node n.
ErrsCapacity(n) == Cardinality(Children(n))

\* The worker: errs <- err.  The send proceeds while the buffer has room; a
\* send on a closed channel is a run-time panic.
Deposit(n) ==
    /\ panicked = NoNode
    /\ pc[n] = "deposit"
    /\ IF closed[Parent(n)]
       THEN panicked' = n /\ UNCHANGED <<pc, errs>>
       ELSE /\ Len(errs[Parent(n)]) < ErrsCapacity(Parent(n))
            /\ errs' = [errs EXCEPT ![Parent(n)] = Append(@, Outcome(n, ret[n]))]
            /\ pc' = [pc EXCEPT ![n] = "release"]
            /\ UNCHANGED panicked
    /\ UNCHANGED <<notPrep, ret, pinned, mirror, spc, closed, sem, wg, em,
                   prepRet, tag, trail, worktree, received>>

\* The worker: the deferred func() { <-semaphore }().
Release(n) ==
    /\ panicked = NoNode
    /\ pc[n] = "release"
    /\ sem[SemaphoreOf(n)] > 0
    /\ sem' = [sem EXCEPT ![SemaphoreOf(n)] = @ - 1]
    /\ pc' = [pc EXCEPT ![n] = "wgDone"]
    /\ UNCHANGED <<notPrep, ret, pinned, mirror, spc, errs, closed, wg, em,
                   prepRet, panicked, tag, trail, worktree, received>>

\* The worker: the deferred wg.Done(); the goroutine ends.
WgDone(n) ==
    /\ panicked = NoNode
    /\ pc[n] = "wgDone"
    /\ wg' = [wg EXCEPT ![Parent(n)] = @ - 1]
    /\ pc' = [pc EXCEPT ![n] = "done"]
    /\ UNCHANGED <<notPrep, ret, pinned, mirror, spc, errs, closed, sem, em,
                   prepRet, panicked, tag, trail, worktree, received>>

\* MultipleErrors: one iteration of `for e := range errs`.
Receive(n) ==
    /\ panicked = NoNode
    /\ pc[n] = "MultipleErrors"
    /\ errs[n] # <<>>
    /\ em' = [em EXCEPT ![n] = Collect(@, Head(errs[n]))]
    /\ errs' = [errs EXCEPT ![n] = Tail(@)]
    /\ received' = [received EXCEPT ![n] = @ + 1]
    /\ UNCHANGED <<notPrep, pc, ret, pinned, mirror, spc, closed, sem, wg,
                   prepRet, panicked, tag, trail, worktree>>

\* MultipleErrors: the channel is closed and empty, the loop ends, and
\* PrepSubmodules returns what MultipleErrors returns.
Drained(n) ==
    /\ panicked = NoNode
    /\ pc[n] = "MultipleErrors"
    /\ errs[n] = <<>>
    /\ closed[n]
    /\ PrepSubmodulesReturn(n, MultipleErrors(em[n]))
    /\ UNCHANGED <<notPrep, pinned, mirror, spc, errs, closed, sem, wg, em,
                   panicked, tag, trail, worktree, received>>

\* No tree of submodules is modelled.
PrepIdle ==
    /\ pc = [n \in Nodes |-> "idle"]
    /\ ret = [n \in Nodes |-> Nil]
    /\ pinned = [n \in Nodes |-> ""]
    /\ mirror = [p \in MirrorPaths |-> Absent]
    /\ spc = [n \in Nodes |-> "none"]
    /\ errs = [n \in Nodes |-> <<>>]
    /\ closed = [n \in Nodes |-> FALSE]
    /\ sem = [n \in Nodes |-> 0]
    /\ wg = [n \in Nodes |-> 0]
    /\ em = [n \in Nodes |-> <<>>]
    /\ prepRet = [n \in Nodes |-> [type |-> "none", errs |-> <<>>]]
    /\ panicked = NoNode
    /\ tag = ""
    /\ trail = [n \in Nodes |-> <<>>]
    /\ worktree = {}
    /\ received = [n \in Nodes |-> 0]

\* The refs the top-level preparation is called with in the tree model: a
\* commit of the remote, a commit it does not have, a branch, and a name
\* that is no ref.
TopRefs == {Sha1, Sha2, Master, Typo}

\* A caller invokes PrepBuildDirectory(gitDir, remote, ref) on an empty cache
\* root: no mirror exists yet, neither the top-level one nor a submodule's.
PrepInit ==
    /\ pc = [n \in Nodes |-> IF n = Root THEN "LocalMirror" ELSE "idle"]
    /\ ret = [n \in Nodes |-> Nil]
    /\ \E r \in TopRefs : pinned = [n \in Nodes |-> IF n = Root THEN r ELSE ""]
    /\ mirror = [p \in MirrorPaths |-> Absent]
    /\ spc = [n \in Nodes |-> "none"]
    /\ errs = [n \in Nodes |-> <<>>]
    /\ closed = [n \in Nodes |-> FALSE]
    /\ sem = [n \in Nodes |-> 0]
    /\ wg = [n \in Nodes |-> 0]
    /\ em = [n \in Nodes |-> <<>>]
    /\ prepRet = [n \in Nodes |-> [type |-> "none", errs |-> <<>>]]
    /\ panicked = NoNode
    /\ tag = ""
    /\ trail = [n \in Nodes |-> <<>>]
    /\ worktree = {}
    /\ received = [n \in Nodes |-> 0]

\* The cache root is empty, or holds the mirror an earlier clone left.
MirrorInit ==
    /\ disk \in {Absent, Remote(0)}
    /\ checkouts = {}
    /\ pushes = 0
    /\ mpc = "idle"
    /\ ref = ""
    /\ rev = ""
    /\ tagName = ""
    /\ builds = {}
    /\ log = <<>>

\* No external command is modelled on its own.
RunIdle ==
    /\ opKind = "none"
    /\ ctxErr = Nil
    /\ proc = "none"
    /\ hung = FALSE
    /\ exitCode = 0
    /\ cpc = "returned"
    /\ wpc = "none"
    /\ waitErr = Nil
    /\ runRet = Nil
    /\ opRet = Nil
    /\ killCalled = FALSE
    /\ sel = [ctxDone |-> FALSE, offered |-> FALSE, branch |-> "none"]
    /\ events = <<>>

Init == MirrorInit /\ RunIdle /\ PrepIdle

Next ==
    \/ \E r \in Refs : Begin(r)
    \/ StepLocalMirror
    \/ StepRevParse
    \/ StepDescribe
    \/ StepRecursiveCheckout
    \/ \E b \in builds : Cleanup(b)
    \/ RemotePush

Spec == Init /\ [][Next]_vars

(***************************************************************************)
(* Claims about the mirror cache, checked under Spec.                      *)
(***************************************************************************)
\* The invocations whose LocalMirror call has returned.
Mirrored == {i \in 1..Len(log) : log[i].op # "pending"}
\* The network operations invocation i started on the top-level mirror.
NetOps(i) == IF log[i].op \in {"clone", "fetch"} THEN 1 ELSE 0

\* C1 (Freshening): every LocalMirror call that finds gitDir present and is
\* given a symbolic name (anything that is not a 40-hex-digit commit id)
\* attempts a fetch, and AlreadyHaveRef does not return true for that name.
C1_Freshening ==
    \A i \in Mirrored :
        (log[i].existed /\ ~IsObjectId(log[i].ref)) =>
            (log[i].op = "fetch" /\ ~log[i].have)

\* C2 (Freshness state machine): an absent mirror path gives exactly one
\* clone and no fetch; a present one gives no clone, and no network
\* operation if and only if ref is a commit id that is in the local object
\* store, and exactly one fetch in every other case.
C2_FreshnessStateMachine ==
    \A i \in Mirrored :
        /\ ~log[i].existed => log[i].op = "clone"
        /\ log[i].existed =>
            /\ log[i].op # "clone"
            /\ (log[i].op = "none") <=>
                    (IsObjectId(log[i].ref) /\ log[i].inStore)
            /\ log[i].op # "none" => log[i].op = "fetch"

CheckedOut == {i \in 1..Len(log) : log[i].dir # ""}

\* C12 (Checkout directory derivation): the checkout path of an invocation
\* is c/<first ten characters of the commit id it resolved>; two invocations
\* that resolved the same commit id used the same checkout path, and two
\* that resolved different commit ids used different checkout paths.
C12_CheckoutPathDerivation ==
    \A i, j \in CheckedOut :
        /\ log[i].dir = "c/" \o Str(SubSeq(Chars(log[i].rev), 1, ShortRevLen))
        /\ log[i].rev = log[j].rev => log[i].dir = log[j].dir
        /\ log[i].rev # log[j].rev => log[i].dir # log[j].dir

\* C13 (Cleanup frame), as stated: no step deletes the mirror or an object
\* of it; a checkout directory disappears only in a step in which the
\* caller invokes the Cleanup of a BuildDirectory it holds; that step removes
\* exactly the checkout path of that invocation, and leaves the checkout
\* of every other revision in place.
C13_CleanupFrame ==
    [][ /\ disk.state # "absent" =>
            (disk'.state # "absent" /\ disk.objs \subseteq disk'.objs)
        /\ (checkouts \ checkouts' # {}) =>
            \E b \in builds :
                /\ mpc = "idle"
                /\ builds' = builds \ {b}
                /\ \A c \in checkouts : c \in checkouts' <=> c.path # b.Dir
                /\ \A c \in checkouts :
                    c.rev # log[b.run].rev => c \in checkouts'
      ]_vars

(***************************************************************************)
(* One external command, run the way the code runs it: git.go and the      *)
(* submodule file.  Clone and Fetch hand the command to ContextRun, which  *)
(* starts it, waits for it in a goroutine of its own and selects between   *)
(* ctx.Done() and the result channel errc.  Every other command is run by  *)
(* cmd.Run or cmd.Output, which block until the process has exited.        *)
(***************************************************************************)
\* The commands, by the function that runs them: Clone, Fetch,
\* AlreadyHaveRef, RevParse, Describe, GetSubmoduleRev, Checkout.
OpKinds == {"clone", "fetch", "cat-file", "rev-parse", "describe", "ls-tree",
            "checkout"}

\* A variant of UsesContextRun in which no command is handed to ContextRun.
UsesContextRunNever(kind) == FALSE

\* Whether the function that runs the command hands it to ContextRun.
UsesContextRun(kind) == kind \in {"clone", "fetch"}

\* What the function that ran a command of this kind returns, given what
\* ContextRun (or cmd.Run, cmd.Output) returned.
OpResult(kind, runErr) ==
    IF kind = "fetch" THEN Fetch(runErr)
    ELSE IF kind = "clone" THEN Clone(runErr)
    ELSE runErr

\* A variant of SelectDone that returns without killing the process.
SelectDoneNoKill(err) == [ret |-> err, kill |-> FALSE]

\* The case <-ctx.Done() of ContextRun: kill the process, return ctx.Err().
SelectDone(err) == [ret |-> err, kill |-> TRUE]

\* The case err := <-errc of ContextRun: return what cmd.Wait returned.
SelectErrc(err) == [ret |-> err, kill |-> FALSE]

\* cmd.Process.Kill: ends a running process; has no effect on one that exited.
Kill(p) == IF p = "running" THEN "killed" ELSE p

\* The caller returns from ContextRun, cmd.Run or cmd.Output with err.
OpReturn(err) ==
    /\ runRet' = err
    /\ opRet' = OpResult(opKind, err)
    /\ cpc' = "returned"
    /\ events' = Append(events, "returned")

\* cmd.Start (or the start inside cmd.Run, cmd.Output) fails.
StartFails ==
    /\ cpc = "call"
    /\ OpReturn(StartError)
    /\ UNCHANGED <<notRun, opKind, ctxErr, proc, hung, exitCode, wpc, waitErr,
                   killCalled, sel>>

\* cmd.Start succeeds.  ContextRun then starts the goroutine that waits for
\* the process and goes on to its select; cmd.Run and cmd.Output block.
Start(h) ==
    /\ cpc = "call"
    /\ proc' = "running"
    /\ hung' = h
    /\ IF UsesContextRun(opKind)
       THEN cpc' = "select" /\ wpc' = "wait"
       ELSE cpc' = "blocked" /\ wpc' = "none"
    /\ UNCHANGED <<notRun, opKind, ctxErr, exitCode, waitErr, runRet, opRet,
                   killCalled, sel, events>>

\* The process exits by itself with status code.
ProcExit(code) ==
    /\ proc = "running"
    /\ ~hung
    /\ proc' = "exited"
    /\ exitCode' = code
    /\ events' = Append(events, "exit")
    /\ UNCHANGED <<notRun, opKind, ctxErr, hung, cpc, wpc, waitErr, runRet,
                   opRet, killCalled, sel>>

\* The deadline of the context elapses.
Deadline ==
    /\ ctxErr = Nil
    /\ cpc # "returned"
    /\ ctxErr' = DeadlineExceeded
    /\ events' = Append(events, "done")
    /\ UNCHANGED <<notRun, opKind, proc, hung, exitCode, cpc, wpc, waitErr,
                   runRet, opRet, killCalled, sel>>

\* The owner of the context cancels it.
Cancel ==
    /\ ctxErr = Nil
    /\ cpc # "returned"
    /\ UsesContextRun(opKind)
    /\ ctxErr' = Canceled
    /\ events' = Append(events, "done")
    /\ UNCHANGED <<notRun, opKind, proc, hung, exitCode, cpc, wpc, waitErr,
                   runRet, opRet, killCalled, sel>>

\* go func() { errc <- cmd.Wait() }(): cmd.Wait returns once the process has
\* ended, and the goroutine goes on to send the result on errc.
WaiterWait ==
    /\ wpc = "wait"
    /\ proc \in {"exited", "killed"}
    /\ waitErr' = IF proc = "killed" THEN SignalKilled ELSE WaitResult(exitCode)
    /\ wpc' = "send"
    /\ UNCHANGED <<notRun, opKind, ctxErr, proc, hung, exitCode, cpc, runRet,
                   opRet, killCalled, sel, events>>

\* What the select statement finds ready.
Ready == [ctxDone |-> ctxErr # Nil, offered |-> wpc = "send"]

\* select takes case <-ctx.Done().
ContextRunDone ==
    /\ cpc = "select"
    /\ ctxErr # Nil
    /\ LET r == SelectDone(ctxErr)
       IN  /\ proc' = IF r.kill THEN Kill(proc) ELSE proc
           /\ killCalled' = r.kill
           /\ OpReturn(r.ret)
    /\ sel' = [ctxDone |-> Ready.ctxDone, offered |-> Ready.offered,
               branch |-> "ctx"]
    /\ UNCHANGED <<notRun, opKind, ctxErr, hung, exitCode, wpc, waitErr>>

\* select takes case err := <-errc: the send of the goroutine and the
\* receive of ContextRun happen together, errc being unbuffered.
ContextRunErrc ==
    /\ cpc = "select"
    /\ wpc = "send"
    /\ LET r == SelectErrc(waitErr)
       IN  /\ proc' = IF r.kill THEN Kill(proc) ELSE proc
           /\ killCalled' = r.kill
           /\ OpReturn(r.ret)
    /\ wpc' = "done"
    /\ sel' = [ctxDone |-> Ready.ctxDone, offered |-> Ready.offered,
               branch |-> "errc"]
    /\ UNCHANGED <<notRun, opKind, ctxErr, hung, exitCode, waitErr>>

\* cmd.Run or cmd.Output returns: the process has exited.
RunReturns ==
    /\ cpc = "blocked"
    /\ proc = "exited"
    /\ OpReturn(WaitResult(exitCode))
    /\ UNCHANGED <<notRun, opKind, ctxErr, proc, hung, exitCode, wpc, waitErr,
                   killCalled, sel>>

\* A command of any kind is about to be run; its deadline may have elapsed
\* already (LocalMirror creates the context before it runs anything).
RunInit ==
    /\ opKind \in OpKinds
    /\ ctxErr \in {Nil, DeadlineExceeded}
    /\ proc = "none"
    /\ hung = FALSE
    /\ exitCode = 0
    /\ cpc = "call"
    /\ wpc = "none"
    /\ waitErr = Nil
    /\ runRet = Nil
    /\ opRet = Nil
    /\ killCalled = FALSE
    /\ sel = [ctxDone |-> FALSE, offered |-> FALSE, branch |-> "none"]
    /\ events = IF ctxErr = Nil THEN <<>> ELSE <<"done">>

\* No PrepBuildDirectory invocation is modelled.
MirrorIdle ==
    /\ disk = Absent
    /\ checkouts = {}
    /\ pushes = 0
    /\ mpc = "idle"
    /\ ref = ""
    /\ rev = ""
    /\ tagName = ""
    /\ builds = {}
    /\ log = <<>>

\* The steps of the caller, of the goroutine of ContextRun, and of the process.
CallerStep == StartFails \/ (\E h \in BOOLEAN : Start(h)) \/ ContextRunDone
                 \/ ContextRunErrc \/ RunReturns
ProcStep == \E code \in ExitCodes : ProcExit(code)

RunNext ==
    \/ StartFails
    \/ \E h \in BOOLEAN : Start(h)
    \/ \E code \in ExitCodes : ProcExit(code)
    \/ Deadline
    \/ Cancel
    \/ WaiterWait
    \/ ContextRunDone
    \/ ContextRunErrc
    \/ RunReturns

InitRun == RunInit /\ MirrorIdle /\ PrepIdle

RunSpec == InitRun /\ [][RunNext]_vars

\* The Go scheduler runs every goroutine that can take a step, and a process
\* that is not hung exits.
FairRunSpec ==
    /\ RunSpec
    /\ WF_vars(CallerStep)
    /\ WF_vars(WaiterWait)
    /\ WF_vars(ProcStep)

(***************************************************************************)
(* Claims about ContextRun, Fetch and Clone, checked under RunSpec and     *)
(* FairRunSpec.                                                            *)
(***************************************************************************)
\* Whether event a occurred, and occurred before event b if b occurred.
Before(a, b) ==
    \E i \in 1..Len(events) :
        /\ events[i] = a
        /\ \A j \in 1..Len(events) : events[j] = b => i < j

\* ContextRun has returned from its select statement.
Selected == cpc = "returned" /\ sel.branch # "none"

\* C7 as stated (ContextRun deadline semantics): when ctx is done before the
\* completion of the process has been observed, the process is killed and
\* ContextRun returns ctx.Err(); when the process completes first, ContextRun
\* returns the result of the process and does not kill it.
C7_AsStated ==
    Selected =>
        /\ Before("done", "returned") =>
                (killCalled /\ runRet = ctxErr /\ runRet # WaitResult(exitCode))
        /\ Before("exit", "done") =>
                (~killCalled /\ runRet = WaitResult(exitCode))

\* C7 as amended: when the select statement finds ctx done and no result on
\* offer, the process is killed and ContextRun returns ctx.Err(); when it
\* finds a result on offer and ctx not done, ContextRun returns that result,
\* the one of the process, and does not call Kill; when it finds both, it
\* takes either case.  The case it takes decides the rest: case ctx.Done()
\* calls Kill and returns ctx.Err(), case errc returns the result of a process
\* that exited by itself; the exit status of a killed process is never returned.
C7_DeadlineSemantics ==
    Selected =>
        /\ sel.ctxDone \/ sel.offered
        /\ (sel.ctxDone /\ ~sel.offered) => sel.branch = "ctx"
        /\ (sel.offered /\ ~sel.ctxDone) => sel.branch = "errc"
        /\ sel.branch = "ctx" =>
            /\ killCalled
            /\ proc # "running"
            /\ runRet = ctxErr
            /\ runRet \in {DeadlineExceeded, Canceled}
        /\ sel.branch = "errc" =>
            /\ ~killCalled
            /\ proc = "exited"
            /\ runRet = WaitResult(exitCode)
        /\ runRet # SignalKilled

\* Witness of C7: the deadline elapsed while the process was running; the
\* process was killed and ContextRun returned the context's error.
C7_Witness ==
    /\ Selected
    /\ sel.branch = "ctx"
    /\ ~sel.offered
    /\ proc = "killed"
    /\ ~hung
    /\ runRet = DeadlineExceeded

\* C8 (Benign no-op classification): Fetch returns nil exactly when
\* ContextRun reports that the process exited with status 0 or 1, and returns
\* every other result of ContextRun unchanged; Clone returns nil exactly when
\* the process exited with status 0.
C8_BenignNoOp ==
    cpc = "returned" =>
        /\ opKind = "fetch" =>
            /\ opRet = Nil <=> (sel.branch = "errc" /\ exitCode \in {0, 1})
            /\ opRet # Nil => opRet = runRet
        /\ opKind = "clone" =>
            /\ opRet = Nil <=> (sel.branch = "errc" /\ exitCode = 0)
            /\ opRet = runRet

\* Witness of C8: a fetch whose process exited with status 1 returned nil.
C8_Witness ==
    /\ cpc = "returned"
    /\ opKind = "fetch"
    /\ sel.branch = "errc"
    /\ exitCode = 1
    /\ runRet = ExitError(1)
    /\ opRet = Nil

\* C9 as stated (every external operation runs under the deadline wrapper):
\* whenever the process of an external command is running after the deadline
\* has elapsed, the caller is in the select statement of ContextRun, about to
\* kill it.
C9_AsStated ==
    (proc = "running" /\ ctxErr # Nil) => cpc = "select"

\* C9 as amended: only the mirror clone and the fetch run under the deadline
\* wrapper: while one of them is running after its deadline the caller is in
\* the select statement about to kill it, and the caller returns.  (The
\* object-exists query, ref resolution, describe, tree-entry read and
\* worktree materialization are run by cmd.Run or cmd.Output, without a
\* deadline.)
C9_DeadlineBound ==
    /\ []((opKind \in {"clone", "fetch"} /\ proc = "running" /\ ctxErr # Nil)
            => cpc = "select")
    /\ (opKind \in {"clone", "fetch"} /\ ctxErr # Nil) ~> (cpc = "returned")

\* Witness of C9: a clone or fetch whose process never exits by itself was
\* killed at its deadline, and the caller has returned.
C9_Witness ==
    /\ opKind \in {"clone", "fetch"}
    /\ hung
    /\ proc = "killed"
    /\ cpc = "returned"
    /\ opRet = DeadlineExceeded

(***************************************************************************)
(* RecursiveCheckout of a revision with a tree of submodules.              *)
(***************************************************************************)
InitPrep == PrepInit /\ MirrorIdle /\ RunIdle

PrepNext ==
    \/ \E n \in Workers : Acquire(n)
    \/ \E n \in Nodes : PrepLocalMirror(n)
    \/ PrepRevParse
    \/ PrepDescribe
    \/ \E n \in Nodes : PrepCheckout(n)
    \/ \E n \in Nodes : PrepParseSubmodules(n)
    \/ \E n \in Nodes : PrepGetSubmoduleRevs(n)
    \/ \E n \in Nodes, c \in Workers : Spawn(n, c)
    \/ \E n \in Nodes : SpawnEnd(n)
    \/ \E n \in Nodes : CloseErrs(n)
    \/ \E n \in Workers : Deposit(n)
    \/ \E n \in Workers : Release(n)
    \/ \E n \in Workers : WgDone(n)
    \/ \E n \in Nodes : Receive(n)
    \/ \E n \in Nodes : Drained(n)

PrepSpec == InitPrep /\ [][PrepNext]_vars

(***************************************************************************)
(* Properties of the preparation of the submodule tree.                    *)
(***************************************************************************)
\* The worker of node c is executing prepSubmodule.
InPrepSubmodule(c) ==
    pc[c] \in {"LocalMirror", "Checkout", "ParseSubmodules",
               "GetSubmoduleRevs", "MultipleErrors"}
\* The worker of node c holds a slot of its parent's semaphore.
HoldsSlot(c) == InPrepSubmodule(c) \/ pc[c] \in {"deposit", "release"}
\* The worker of node c was created.
Created(c) == pc[c] # "idle"
\* prepSubmodule of node c has returned.
Prepared(c) == pc[c] \in {"deposit", "release", "wgDone", "done"}
\* The worker of node c has sent its outcome on errs.
Deposited(c) == pc[c] \in {"release", "wgDone", "done"}
\* The program has stopped: no goroutine can take a step.
Halted == ~ENABLED PrepNext

\* C4: within one call to PrepSubmodules (one node n), at most NumCPU workers
\* are executing prepSubmodule at the same time, however many submodules
\* there are, and the workers executing it are among those that hold a slot
\* of the semaphore, whose count never exceeds NumCPU.
C4_ConcurrencyBound ==
    \A n \in Nodes :
        /\ Cardinality({c \in Children(n) : InPrepSubmodule(c)}) <= NumCPU
        /\ sem[n] = Cardinality({c \in Children(n) : HoldsSlot(c)})
        /\ sem[n] <= NumCPU

\* C4 witness: NumCPU workers of the top level are executing prepSubmodule
\* while one more worker, created, waits for a slot.
C4_Witness ==
    /\ Cardinality(Children(Root)) > NumCPU
    /\ Cardinality({c \in Children(Root) : InPrepSubmodule(c)}) = NumCPU
    /\ \E c \in Children(Root) : pc[c] = "acquire"

\* C5, as stated: when the program has stopped, every sibling whose worker
\* was created has run its preparation to completion and delivered its
\* outcome, whatever happened to the others.
C5_Isolation ==
    Halted =>
        \A c \in Workers :
            (Created(c) /\ c # panicked) => (Deposited(c) /\ pc[c] = "done")

\* C6, as stated: whenever PrepSubmodules of a node has returned, it
\* returned nil exactly if every preparation of a submodule that ran
\* returned nil, and otherwise an ErrMultiple with exactly one entry
\* "processing <path>: ..." per failing submodule.
C6_AsStated ==
    \A n \in Nodes :
        prepRet[n].type # "none" =>
            LET failing == {c \in Children(n) : Prepared(c) /\ ret[c] # Nil}
            IN  /\ (prepRet[n].type = "nil") <=> (failing = {})
                /\ prepRet[n].type # "nil" =>
                    /\ prepRet[n].type = "ErrMultiple"
                    /\ Len(prepRet[n].errs) = Cardinality(failing)
                    /\ {prepRet[n].errs[i] : i \in 1..Len(prepRet[n].errs)}
                         = {Outcome(c, ret[c]) : c \in failing}

\* C6, amended: whenever PrepSubmodules of a node has returned after it
\* started its workers, every worker has finished, and it returned nil
\* exactly if every submodule's preparation returned nil, and otherwise an
\* ErrMultiple with exactly one entry "processing <path>: ..." per failing
\* submodule and none for a succeeding one; when it returned without
\* starting workers, it returned nil (no .gitmodules) or the single error of
\* ParseSubmodules or GetSubmoduleRevs.
C6_AggregateResult ==
    \A n \in Nodes :
        prepRet[n].type # "none" =>
            IF spc[n] = "none"
            THEN /\ \A c \in Children(n) : ~Created(c)
                 /\ \/ prepRet[n].type = "nil" /\ ~HasGitModules(n)
                    \/ /\ prepRet[n].type = "error"
                       /\ HasGitModules(n)
                       /\ Len(prepRet[n].errs) = 1
            ELSE LET failing == {c \in Children(n) : ret[c] # Nil}
                 IN  /\ \A c \in Children(n) : pc[c] = "done"
                     /\ (prepRet[n].type = "nil") <=> (failing = {})
                     /\ prepRet[n].type # "nil" =>
                         /\ prepRet[n].type = "ErrMultiple"
                         /\ Len(prepRet[n].errs) = Cardinality(failing)
                         /\ {prepRet[n].errs[i] :
                                 i \in 1..Len(prepRet[n].errs)}
                              = {"processing " \o Path(c) \o ": " \o ret[c] :
                                     c \in failing}

\* C6 witness: PrepSubmodules of the top level has returned an ErrMultiple
\* while one submodule's preparation failed and another one's succeeded.
C6_Witness ==
    /\ prepRet[Root].type = "ErrMultiple"
    /\ \E c \in Children(Root) : pc[c] = "done" /\ ret[c] # Nil
    /\ \E c \in Children(Root) : pc[c] = "done" /\ ret[c] = Nil

\* C10, as stated: the recursion is never deeper than the submodule tree,
\* and when the program has stopped, RecursiveCheckout has returned, every
\* worker created at any level has deposited its outcome and ended, and
\* every result channel is closed with MultipleErrors returned.
C10_Termination ==
    /\ \A n \in Nodes : Created(n) => Depth(n) <= NestDepth + 1
    /\ Halted =>
        /\ pc[Root] = "returned"
        /\ \A c \in Workers : Created(c) => pc[c] = "done"
        /\ \A n \in Nodes :
            spc[n] # "none" => (closed[n] /\ prepRet[n].type # "none")

\* C11: when ParseSubmodules of a node finds no .gitmodules, PrepSubmodules
\* returns nil and has done no submodule work: the failed load is the last
\* step of the node, no tree entry was queried, no goroutine, channel or
\* worker was started and no submodule was mirrored or checked out; any
\* other error of ParseSubmodules is what PrepSubmodules returns, with no
\* submodule work either.
C11_GracefulNoSubmodules ==
    \A n \in Nodes : \A i \in 1..Len(trail[n]) :
        (trail[n][i].step = "ParseSubmodules" /\ trail[n][i].err # Nil) =>
            /\ i = Len(trail[n])
            /\ spc[n] = "none" /\ wg[n] = 0 /\ sem[n] = 0
            /\ errs[n] = <<>> /\ received[n] = 0 /\ ~closed[n]
            /\ \A c \in Children(n) :
                ~Created(c) /\ trail[c] = <<>> /\ mirror[GitDir(c)] = Absent
            /\ IF trail[n][i].err = NotExistError
               THEN /\ prepRet[n] = [type |-> "nil", errs |-> <<>>]
                    /\ ret[n] = Nil
               ELSE /\ prepRet[n] =
                        [type |-> "error", errs |-> <<trail[n][i].err>>]
                    /\ ret[n] = "failed to prep submodules: "
                                    \o trail[n][i].err

\* C11 witness: a submodule whose checkout holds no .gitmodules has been
\* prepared without error, and its worker has ended.
C11_Witness ==
    \E n \in Workers :
        /\ pc[n] = "done"
        /\ ret[n] = Nil
        /\ trail[n][Len(trail[n])] = Step("ParseSubmodules", NotExistError)

\* How many steps of that name the preparation of node n has taken.
CountSteps(n, name) ==
    Cardinality({i \in 1..Len(trail[n]) : trail[n][i].step = name})
\* Every step every preparation has taken succeeded (a checkout without
\* .gitmodules counts: nothing failed), and no goroutine panicked.
AllSucceeded ==
    /\ panicked = NoNode
    /\ \A n \in Nodes : \A i \in 1..Len(trail[n]) :
          trail[n][i].err \in {Nil, NotExistError}

FailedAt(n, name) ==
    \E i \in 1..Len(trail[n]) :
        trail[n][i].step = name /\ trail[n][i].err # Nil
\* Nothing of the subtree below node n was ever attempted: PrepSubmodules of
\* n never ran, and no submodule of n was pinned, given a worker or a mirror.
SubtreeUntouched(n) ==
    /\ CountSteps(n, "ParseSubmodules") = 0
    /\ CountSteps(n, "ls-tree") = 0
    /\ spc[n] = "none"
    /\ \A d \in Children(n) :
        /\ ~Created(d)
        /\ pinned[d] = ""
        /\ trail[d] = <<>>
        /\ mirror[GitDir(d)] = Absent
        /\ \A w \in worktree : w.node # d
\* In this step the preparation of node c takes a mirror or checkout step
\* that fails.
FailsNow(c) ==
    /\ trail'[c] # trail[c]
    /\ LET last == trail'[c][Len(trail'[c])]
       IN  last.step \in {"LocalMirror", "Checkout"} /\ last.err # Nil

\* C15 (Subtree abort): a submodule whose LocalMirror failed never has a
\* Checkout step or a worktree; a submodule whose Checkout failed has no
\* worktree and PrepSubmodules never runs for it: its own submodules are not
\* read, not pinned and get no worker and no mirror. In both cases the
\* failing step is the submodule's last, prepSubmodule returns the error
\* (wrapped as "failed to checkout: ..." for a checkout), and once deposited
\* it reaches the parent annotated with the submodule's path. The step that
\* fails changes nothing of any sibling: its position, result, revision,
\* steps taken, mirror and worktree stay as they were.
C15_SubtreeAbort ==
    /\ [](\A c \in Workers : \A i \in 1..Len(trail[c]) :
            LET s == trail[c][i]
            IN  (s.step \in {"LocalMirror", "Checkout"} /\ s.err # Nil) =>
                  /\ i = Len(trail[c])
                  /\ Prepared(c)
                  /\ \A w \in worktree : w.node # c
                  /\ SubtreeUntouched(c)
                  /\ s.step = "LocalMirror" =>
                        /\ CountSteps(c, "Checkout") = 0
                        /\ ret[c] = s.err
                  /\ s.step = "Checkout" =>
                        /\ ret[c] = "failed to checkout: " \o s.err
                        /\ trail[c][i - 1] = Step("LocalMirror", Nil)
                  /\ (Deposited(c) /\ panicked = NoNode) =>
                        LET e == "processing " \o Path(c) \o ": " \o ret[c]
                        IN  \/ \E k \in 1..Len(errs[Parent(c)]) :
                                  errs[Parent(c)][k] = e
                            \/ \E k \in 1..Len(em[Parent(c)]) :
                                  em[Parent(c)][k] = e)
    /\ [][\A c \in Workers : FailsNow(c) =>
            \A s \in Workers \ {c} : Parent(s) = Parent(c) =>
                /\ pc'[s] = pc[s] /\ ret'[s] = ret[s]
                /\ pinned'[s] = pinned[s] /\ trail'[s] = trail[s]
                /\ mirror'[GitDir(s)] = mirror[GitDir(s)]
                /\ {w \in worktree' : w.node = s} = {w \in worktree : w.node = s}
                /\ spc'[s] = spc[s] /\ prepRet'[s] = prepRet[s]
         ]_vars

\* C15 witness: of two siblings the first failed in its mirror step and the
\* second in its checkout, both returned their failure, and a third sibling
\* was prepared without error and has its worktree.
C15_Witness ==
    \E a, b, s \in Workers :
        /\ Parent(a) = Root /\ Parent(b) = Root /\ Parent(s) = Root
        /\ FailedAt(a, "LocalMirror") /\ FailedAt(b, "Checkout")
        /\ Deposited(a) /\ Deposited(b)
        /\ pc[s] = "done" /\ ret[s] = Nil
        /\ \E w \in worktree : w.node = s
        /\ Children(b) # {}


\* C16 (Pinning failure): at the pinning step of a node, whatever
\* `git ls-tree` gives for a declared submodule path, GetSubmoduleRev does
\* not crash, and it returns an error when the output has fewer than three
\* whitespace-delimited fields (no entry, or a malformed one); no goroutine
\* of the program has panicked.
C16_PinningFailure ==
    /\ panicked = NoNode
    /\ \A n \in Nodes : pc[n] = "GetSubmoduleRevs" =>
        \A c \in Children(n) : \A out \in LsTreeResults(c) :
            LET r == GetSubmoduleRev(out)
            IN  /\ ~r.panic
                /\ (out.err = Nil /\ Len(Fields(out.stdout)) < 3) => r.err # Nil


\* The preparation of node n (RecursiveCheckout for Root, prepSubmodule for
\* a submodule) has begun and has not returned.
Active(n) ==
    pc[n] \in {"LocalMirror", "RevParse", "Describe", "Checkout",
               "ParseSubmodules", "GetSubmoduleRevs", "MultipleErrors"}

\* C17 (Path ownership): where the submodules one .gitmodules declares have
\* distinct paths, the mirror path of every submodule is
\* <mirror path of its parent>/modules/<its path> (so the nested libs/a of
\* libs/a is at modules/libs/a/modules/libs/a) and its worktree is at
\* <checkout path of its parent>/<its path>; no two nodes of the tree have
\* the same mirror path or the same checkout path, so no two preparations
\* that are active together work on the same path; every worktree made is at
\* the path of the node it was made for; and a mirror directory changes only
\* in the mirror step of the one node that owns it.
C17_PathOwnership ==
    /\ [](/\ \A c \in Workers :
              /\ GitDir(c) = (IF Parent(c) = Root THEN ""
                              ELSE GitDir(Parent(c)) \o "/")
                                 \o "modules/" \o Path(c)
              /\ CheckoutDir(c, "c/4b825dc642") =
                    CheckoutDir(Parent(c), "c/4b825dc642") \o "/" \o Path(c)
          /\ GitDir(TopSubmodules + 1) = "modules/libs/a/modules/libs/a"
          /\ \A n, m \in Nodes : n # m =>
              /\ GitDir(n) # GitDir(m)
              /\ CheckoutDir(n, "c/4b825dc642") # CheckoutDir(m, "c/4b825dc642")
              /\ (Active(n) /\ Active(m)) =>
                    /\ GitDir(n) # GitDir(m)
                    /\ \A top \in {w.path : w \in {v \in worktree : v.node = Root}} :
                          CheckoutDir(n, top) # CheckoutDir(m, top)
          /\ \A w \in worktree :
              /\ w.path = CheckoutPathOf(w.node)
              /\ \A v \in worktree : v.path = w.path => v = w
              /\ w.node # Root =>
                    \E pw \in worktree :
                        /\ pw.node = Parent(w.node)
                        /\ w.path = pw.path \o "/" \o Path(w.node))
    /\ [][\A p \in MirrorPaths : mirror'[p] # mirror[p] =>
            \E n \in Nodes :
                /\ GitDir(n) = p
                /\ pc[n] = "LocalMirror" /\ pc'[n] # "LocalMirror"
                /\ \A m \in Nodes \ {n} :
                      /\ GitDir(m) # p
                      /\ pc'[m] = pc[m]
                /\ \A q \in MirrorPaths \ {p} : mirror'[q] = mirror[q]
         ]_vars

\* C17 witness: the nested submodule libs/a of the submodule libs/a is being
\* prepared while a sibling of the outer libs/a is, too; outer and nested
\* submodule each have a complete mirror of their own, and the outer one its
\* worktree.
C17_Witness ==
    LET inner == TopSubmodules + 1
        outer == Parent(inner)
    IN  /\ Path(inner) = Path(outer)
        /\ Active(outer) /\ Active(inner)
        /\ \E s \in Children(Root) \ {outer} :
              Active(s) /\ mirror[GitDir(s)].state = "complete"
        /\ mirror[GitDir(outer)].state = "complete"
        /\ mirror[GitDir(inner)].state = "complete"
        /\ \E w \in worktree : w.node = outer


\* The workers of node n that have sent their outcome on errs.
Depositors(n) == {c \in Children(n) : Deposited(c)}

\* C18 (Result collector protocol): in every call of PrepSubmodules the
\* outcomes sent so far (those in the buffer of errs plus those received)
\* are one for each worker that has passed its send, and never more than the
\* capacity of errs, the number of submodules; a worker at its send finds
\* the channel open and with room, so its send can proceed at once; each
\* send appends the outcome of exactly one worker, which never sends again;
\* the channel is closed once, when every worker has finished, and stays
\* closed; and when the drain ends it has received exactly one outcome for
\* every submodule and the buffer is empty.
C18_CollectorProtocol ==
    /\ [](\A n \in Nodes :
            /\ Len(errs[n]) + received[n] = Cardinality(Depositors(n))
            /\ Len(errs[n]) <= ErrsCapacity(n)
            /\ closed[n] <=> spc[n] = "closed"
            /\ closed[n] =>
                  /\ \A c \in Children(n) : pc[c] = "done"
                  /\ wg[n] = 0
            /\ \A c \in Children(n) :
                  (pc[c] = "deposit" /\ panicked = NoNode) =>
                      /\ ~closed[n]
                      /\ Len(errs[n]) < ErrsCapacity(n)
                      /\ ENABLED Deposit(c)
            /\ (prepRet[n].type \in {"nil", "ErrMultiple"} /\ spc[n] # "none") =>
                  /\ closed[n]
                  /\ errs[n] = <<>>
                  /\ received[n] = Cardinality(Children(n))
                  /\ Depositors(n) = Children(n))
    /\ [][\A n \in Nodes :
            /\ closed[n] => closed'[n]
            /\ (~closed[n] /\ closed'[n]) =>
                  \A c \in Children(n) : pc[c] = "done"
            /\ \A c \in Children(n) : Deposited(c) => Deposited(c)'
            /\ errs'[n] # errs[n] =>
                  \/ /\ errs[n] # <<>>
                     /\ errs'[n] = Tail(errs[n])
                     /\ received'[n] = received[n] + 1
                     /\ Depositors(n)' = Depositors(n)
                  \/ \E c \in Children(n) :
                        /\ ~Deposited(c)
                        /\ Depositors(n)' = Depositors(n) \cup {c}
                        /\ errs'[n] = Append(errs[n], Outcome(c, ret[c]))
                        /\ received'[n] = received[n]
         ]_vars

\* C18 witness: PrepSubmodules of the top level has returned after the
\* drain received one outcome for each of its submodules, some of them nil
\* and some not, from a channel that was closed after the last worker ended.
C18_Witness ==
    /\ prepRet[Root].type = "ErrMultiple"
    /\ closed[Root]
    /\ received[Root] = Cardinality(Children(Root))
    /\ Cardinality(Children(Root)) > NumCPU
    /\ Len(prepRet[Root].errs) < received[Root]
    /\ \A c \in Children(Root) : pc[c] = "done"


\* The entries of a list of outcomes that are not nil, in their order.
RECURSIVE NonNil(_)
NonNil(list) ==
    IF list = <<>> THEN <<>>
    ELSE (IF Head(list) = Nil THEN <<>> ELSE <<Head(list)>>) \o NonNil(Tail(list))
\* The annotated failures of the submodules of node n, in the order in which
\* .gitmodules lists them.
InListingOrder(n) ==
    NonNil([i \in 1..Cardinality(Children(n)) |->
                LET c == SeqOf(Children(n))[i] IN Outcome(c, ret[c])])

\* C19, as stated: the composite PrepSubmodules returns is a function of the
\* submodules' outcomes alone: whatever the order in which the workers
\* deposited, its entries and its rendering are those of the run in which
\* the workers deposit in the order of the listing.
C19_AsStated ==
    \A n \in Nodes :
        prepRet[n].type = "ErrMultiple" =>
            /\ prepRet[n].errs = InListingOrder(n)
            /\ ret[n] = "failed to prep submodules: "
                            \o ErrMultipleError(InListingOrder(n))

\* C19, amended: the composite holds exactly one annotated failure for each
\* failing submodule, whatever the interleaving, but as a list in the order
\* of arrival: each worker's outcome is appended to the channel when it
\* deposits, the drain appends the non-nil outcomes to em.errs in the order
\* it receives them, the composite returned is that list, and Error()
\* renders its entries line by line in that order.
C19_ArrivalOrder ==
    /\ [](\A n \in Nodes :
            LET arrived == em[n] \o NonNil(errs[n])
                failed == {c \in Depositors(n) : ret[c] # Nil}
            IN  /\ Len(arrived) = Cardinality(failed)
                /\ {arrived[i] : i \in 1..Len(arrived)}
                       = {"processing " \o Path(c) \o ": " \o ret[c] : c \in failed}
                /\ prepRet[n].type = "ErrMultiple" =>
                      /\ prepRet[n].errs = em[n]
                      /\ ret[n] = "failed to prep submodules: multiple errors:\n"
                                      \o JoinLines(em[n]))
    /\ [][\A n \in Nodes :
            LET arrived == em[n] \o NonNil(errs[n])
                arrivedNext == em'[n] \o NonNil(errs'[n])
            IN  \/ arrivedNext = arrived
                \/ \E c \in Children(n) :
                      /\ pc[c] = "deposit" /\ pc'[c] = "release"
                      /\ ret[c] # Nil
                      /\ arrivedNext = Append(arrived, Outcome(c, ret[c]))
         ]_vars

\* C19 witness: two submodules failed, the one listed later deposited first,
\* and the composite returned lists them in that order, not in the order of
\* the listing.
C19_Witness ==
    /\ prepRet[Root].type = "ErrMultiple"
    /\ Len(prepRet[Root].errs) >= 2
    /\ prepRet[Root].errs # InListingOrder(Root)
    /\ ret[Root] # "failed to prep submodules: "
                       \o ErrMultipleError(InListingOrder(Root))


\* The preparation of node n took the step `name` with success before its
\* i-th step.
DoneBefore(n, name, i) ==
    \E j \in 1..(i - 1) : trail[n][j] = Step(name, Nil)

\* C20 (Step ordering): in the steps a preparation has taken, a Checkout
\* comes only after a successful LocalMirror of the same repository; for the
\* top level RevParse comes only after the successful LocalMirror, Describe
\* only after a successful RevParse, and Checkout only after both; reading
\* .gitmodules and every ls-tree that pins a submodule come only after the
\* successful Checkout of the parent, whose worktree exists; and a submodule
\* has a worker only when pinning has succeeded for every submodule of its
\* level: the parent has made one successful ls-tree per submodule and each
\* of them has its revision.
C20_StepOrdering ==
    /\ \A n \in Nodes : \A i \in 1..Len(trail[n]) :
        LET s == trail[n][i].step
        IN  /\ s \in {"clone", "fetch"} => i = 1
            /\ s = "LocalMirror" => i <= 2
            /\ s = "RevParse" => n = Root /\ DoneBefore(n, "LocalMirror", i)
            /\ s = "Describe" => n = Root /\ DoneBefore(n, "RevParse", i)
            /\ s = "Checkout" =>
                  /\ DoneBefore(n, "LocalMirror", i)
                  /\ n = Root => /\ DoneBefore(n, "RevParse", i)
                                 /\ DoneBefore(n, "Describe", i)
            /\ s \in {"ParseSubmodules", "ls-tree"} =>
                  /\ DoneBefore(n, "Checkout", i)
                  /\ \E w \in worktree : w.node = n
            /\ s = "ls-tree" => DoneBefore(n, "ParseSubmodules", i)
    /\ \A w \in worktree :
          /\ trail[w.node][Len(trail[w.node])].step # "LocalMirror"
          /\ DoneBefore(w.node, "Checkout", Len(trail[w.node]) + 1)
          /\ mirror[GitDir(w.node)].state = "complete"
          /\ w.node = Root => tag # "" /\ Len(pinned[Root]) = ShaLen
    /\ \A c \in Workers :
          Created(c) =>
              LET p == Parent(c)
              IN  /\ spc[p] # "none"
                  /\ \A d \in Children(p) : Len(pinned[d]) = ShaLen
                  /\ Cardinality({i \in 1..Len(trail[p]) :
                                     trail[p][i] = Step("ls-tree", Nil)})
                         = Cardinality(Children(p))
                  /\ \E w \in worktree : w.node = p

\* C20 witness: the top level went through every step, from its clone to
\* the pinning of its last submodule, its workers were started, and one of
\* them went through its own mirror step, checkout and pinning and started
\* the worker of its nested submodule.
C20_Witness ==
    /\ trail[Root] = <<Step("clone", Nil), Step("LocalMirror", Nil),
                       Step("RevParse", Nil), Step("Describe", Nil),
                       Step("Checkout", Nil), Step("ParseSubmodules", Nil)>>
                       \o [i \in 1..Cardinality(Children(Root)) |->
                              Step("ls-tree", Nil)]
    /\ \E c \in Children(Root) :
          /\ trail[c] = <<Step("clone", Nil), Step("LocalMirror", Nil),
                          Step("Checkout", Nil), Step("ParseSubmodules", Nil)>>
                          \o [i \in 1..Cardinality(Children(c)) |->
                                 Step("ls-tree", Nil)]
          /\ \E d \in Children(c) : Created(d)


\* The error the caller of the preparation of node n gets when its step
\* `name` failed with err: PrepBuildDirectory and RecursiveCheckout wrap it.
Reported(n, name, err) ==
    IF name = "LocalMirror"
    THEN (IF n = Root THEN "unable to LocalMirror: " \o err ELSE err)
    ELSE IF name = "RevParse" THEN "unable to parse rev: " \o err
    ELSE IF name = "Describe"
    THEN "unable to describe " \o pinned[n] \o ": " \o err
    ELSE IF name = "Checkout" THEN "failed to checkout: " \o err
    ELSE IF name = "ls-tree"
    THEN "failed to prep submodules: GetSubmoduleRevs: " \o err
    ELSE "failed to prep submodules: " \o err

C22_MirrorInvariant ==
    /\ disk.state \in {"absent", "complete"}
    /\ (mpc = "LocalMirror" /\ Stat(disk) = Nil) => disk.state = "complete"
    /\ \A i \in 1..Len(log) :
          (log[i].op = "fetch" /\ log[i].existed) => log[i].run # ExitError(128)


\* The worker of node c waits for a slot that is not to be had now.
BlockedOnSlot(c) == pc[c] = "acquire" /\ sem[Parent(c)] >= NumCPU
\* The workers, at any level, that are executing prepSubmodule.
ActiveWorkers == {c \in Workers : InPrepSubmodule(c)}

\* C23 (Nested pools): every call of PrepSubmodules has a semaphore of its
\* own whose count is the number of its own workers between their acquire
\* and their release, never more than NumCPU; a worker keeps its slot while
\* its submodule's own PrepSubmodules call runs, whose workers then take
\* slots of that call's semaphore only; a worker waiting for a slot can take
\* it as soon as the semaphore of its own level has room, whatever the other
\* levels hold; a worker that is refused a slot has NumCPU siblings holding
\* one; while no goroutine has panicked and a worker has not ended, some
\* goroutine can take a step; a semaphore is empty when the channel of its
\* level is closed; and a slot is given back only by the worker that holds
\* it, in its deferred receive, once.
C23_NestedPools ==
    /\ [](/\ \A n \in Nodes :
              /\ sem[n] = Cardinality({c \in Children(n) : HoldsSlot(c)})
              /\ sem[n] <= NumCPU
              /\ closed[n] => sem[n] = 0
              /\ \A c \in Children(n) :
                    /\ (spc[c] # "none" /\ pc[c] = "MultipleErrors") => HoldsSlot(c)
                    /\ \A d \in Children(c) : Created(d) /\ pc[d] # "done"
                                                  => HoldsSlot(c)
                    /\ (panicked = NoNode /\ pc[c] = "acquire" /\ sem[n] < NumCPU)
                          => ENABLED Acquire(c)
                    /\ BlockedOnSlot(c) =>
                          Cardinality({d \in Children(n) \ {c} : HoldsSlot(d)})
                              = NumCPU
          /\ (panicked = NoNode /\ \E c \in Workers : Created(c) /\ pc[c] # "done")
                => /\ ENABLED PrepNext
                   /\ \E c \in Workers : Created(c) /\ pc[c] # "done"
                                             /\ ~BlockedOnSlot(c))
    /\ [][\A n \in Nodes :
            /\ sem'[n] < sem[n] =>
                  /\ sem'[n] = sem[n] - 1
                  /\ \E c \in Children(n) :
                        /\ pc[c] = "release" /\ pc'[c] = "wgDone"
                        /\ \A d \in Children(n) \ {c} : pc'[d] = pc[d]
            /\ sem'[n] > sem[n] =>
                  /\ sem'[n] = sem[n] + 1
                  /\ \E c \in Children(n) :
                        pc[c] = "acquire" /\ pc'[c] = "LocalMirror"
            /\ \A m \in Nodes \ {n} : sem'[n] # sem[n] => sem'[m] = sem[m]
         ]_vars

\* C23 witness: more than NumCPU workers execute prepSubmodule at once:
\* NumCPU workers of the top level hold all its slots, one of them waits for
\* its own submodule's worker, which holds a slot of the nested level, and
\* another worker of the top level waits for a slot.
C23_Witness ==
    /\ Cardinality(ActiveWorkers) > NumCPU
    /\ sem[Root] = NumCPU
    /\ \E c \in Children(Root) : BlockedOnSlot(c)
    /\ \E c \in Children(Root) :
          /\ pc[c] = "MultipleErrors"
          /\ sem[c] > 0
          /\ \E d \in Children(c) : InPrepSubmodule(d)


\* C24 (No leaked waiter in ContextRun): once ContextRun has returned, the
\* goroutine it started is never left in its send on errc: with ContextRun
\* gone nothing receives from the channel any more, so a goroutine in that
\* send stays blocked for ever.
C24_NoLeakedWaiter ==
    cpc = "returned" => wpc # "send"
====
